---- MODULE Spec2Model ----
(***************************************************************************)
(* Model of the ton-agent core: the action registry, ActionProvider,       *)
(* WalletActionProvider, TonWalletProvider and the TonAgent facade.        *)
(*                                                                         *)
(* Errors are sequences of layers, outermost first: the head is the error  *)
(* object that was thrown and the tail is its `cause` chain.               *)
(***************************************************************************)
EXTENDS Integers, Sequences, FiniteSets, TLC

\* ------------------------------------------------------------------ bounds
\* longest actionProviders list handed to the TonAgent constructor
MaxProviders == 2

\* ------------------------------------------------------------------ helpers
Range(s) == {s[i] : i \in DOMAIN s}

SeqsUpTo(S, n) == UNION {[1..k -> S] : k \in 0..n}

RECURSIVE Flatten(_)
Flatten(ss) == IF ss = <<>> THEN <<>> ELSE Head(ss) \o Flatten(Tail(ss))

\* F applied to the value of v, which is computed once
Bind(v, F(_)) == CHOOSE r \in {F(x) : x \in {v}} : TRUE

\* an error object: one layer with a cause chain below it
Err(name, message, cause) == <<[name |-> name, message |-> message]>> \o cause

NoCause == <<>>

\* ------------------------------------------------------------------ wallets
Networks == {"mainnet", "testnet"}

\* a wallet provider is identified by the NETWORK its config was built with
WalletProviders == {"testnet", "undefined"}

\* TonWalletProvider constructor + getNetwork
getNetwork(w) == IF w = "undefined" THEN "mainnet" ELSE w

\* ------------------------------------------------------------------ classes
\* the members of each ActionProvider subclass, in declaration order
Member(method, decorated, name, takesWallet, isAsync) ==
    [method |-> method, decorated |-> decorated, name |-> name,
     takesWallet |-> takesWallet, isAsync |-> isAsync]

\* mutant: ensureWalletDeployed declared before transferTon
WalletActionProviderMembers_Reordered ==
    << Member("getWalletDetails", TRUE, "get_wallet_details", TRUE, TRUE),
       Member("ensureWalletDeployed", TRUE, "ensure_wallet_deployed", TRUE, TRUE),
       Member("transferTon", TRUE, "transfer_ton", TRUE, TRUE),
       Member("supportsNetwork", FALSE, "", FALSE, FALSE) >>

WalletActionProviderMembers ==
    << Member("getWalletDetails", TRUE, "get_wallet_details", TRUE, TRUE),
       Member("transferTon", TRUE, "transfer_ton", TRUE, TRUE),
       Member("supportsNetwork", FALSE, "", FALSE, FALSE),
       Member("ensureWalletDeployed", TRUE, "ensure_wallet_deployed", TRUE, TRUE) >>

\* user-defined subclasses of the abstract ActionProvider
DexProviderMembers ==
    << Member("swap", TRUE, "swap", TRUE, TRUE),
       Member("supportsNetwork", FALSE, "", FALSE, FALSE),
       Member("quote", TRUE, "quote", FALSE, FALSE) >>

LeafProviderMembers ==
    << Member("ping", TRUE, "ping", FALSE, TRUE),
       Member("supportsNetwork", FALSE, "", FALSE, FALSE) >>

PlainProviderMembers ==
    << Member("supportsNetwork", FALSE, "", FALSE, FALSE) >>

ClassMembers(type) ==
    CASE type = "WalletActionProvider" -> WalletActionProviderMembers
      [] type = "DexProvider" -> DexProviderMembers
      [] type = "LeafProvider" -> LeafProviderMembers
      [] OTHER -> PlainProviderMembers

\* ------------------------------------------------------------------ registry
\* StoredActionMetadata: a Map, kept as its entries in insertion order
ActionMetadata(m) ==
    [name |-> m.name, walletProvider |-> m.takesWallet, invoke |-> m.method]

MapHas(map, key) == \E i \in DOMAIN map : map[i].key = key

\* Map.set: a new key goes last, a known key keeps its place
MapSet(map, key, value) ==
    IF MapHas(map, key)
    THEN [i \in DOMAIN map |->
            IF map[i].key = key THEN [key |-> key, value |-> value] ELSE map[i]]
    ELSE Append(map, [key |-> key, value |-> value])

\* the decorator applied to one method of a class
CreateAction(map, m) == MapSet(map, m.method, ActionMetadata(m))

RECURSIVE Decorate(_, _)
Decorate(members, map) ==
    IF members = <<>> THEN map
    ELSE Bind(IF Head(members).decorated
              THEN CreateAction(map, Head(members)) ELSE map,
              LAMBDA next : Decorate(Tail(members), next))

\* a metadata entry that cannot be read (a null value in the map)
NullEntry == [key |-> "broken", value |-> [null |-> TRUE]]

IsNull(value) == "null" \in DOMAIN value

\* what is stored under ACTION_DECORATOR_KEY for a class
StoredActionMetadata(type) ==
    IF type = "CorruptProvider"
    THEN [kind |-> "map",
          entries |-> << [key |-> "probe",
                          value |-> [name |-> "probe", walletProvider |-> FALSE,
                                     invoke |-> "probe"]],
                         NullEntry >>]
    ELSE Bind(Decorate(ClassMembers(type), <<>>),
              LAMBDA map : IF map = <<>> THEN [kind |-> "undefined"]
                           ELSE [kind |-> "map", entries |-> map])

\* ------------------------------------------------------------------ providers
\* the provider instances of the run; "undef" is an undefined list element
ProviderIds ==
    {"wap", "wapKids", "wapTwin", "dex", "plain", "leaf", "hub", "corrupt"}

Provider(type, name, kids) == [type |-> type, name |-> name, actionProviders |-> kids]

Providers ==
    [p \in ProviderIds |->
        CASE p = "wap" -> Provider("WalletActionProvider", "wallet", <<>>)
          [] p = "wapKids" -> Provider("WalletActionProvider", "wallet", <<"dex", "plain">>)
          [] p = "wapTwin" -> Provider("WalletActionProvider", "wallet", <<"wap">>)
          [] p = "dex" -> Provider("DexProvider", "dex", <<"leaf">>)
          [] p = "plain" -> Provider("PlainProvider", "plain", <<>>)
          [] p = "leaf" -> Provider("LeafProvider", "leaf", <<>>)
          [] p = "hub" -> Provider("PlainProvider", "hub", <<"leaf", "undef", "dex">>)
          [] OTHER -> Provider("CorruptProvider", "corrupt", <<>>)]

\* the singleton exported by walletActionProvider.ts
walletActionProvider == "wap"

\* providers whose supportsNetwork answer is held in the state
DynamicProviders == {"dex"}

VARIABLES
    walletProvider,     \* TonAgent.walletProvider
    actionProviders,    \* TonAgent.actionProviders
    supported,          \* networks each dynamic provider currently accepts
    event,              \* the operation that ran last
    lastResult,         \* what the last getActions returned or threw
    chain,              \* account state of each wallet on chain
    lastInvoke,         \* the last action.invoke: the call made and its outcome
    procs,              \* the invocations in flight on one wallet provider
    account,            \* sequence number and balance of that wallet on chain
    pending,            \* external messages submitted and not yet processed
    serial,             \* no two invocations have been in flight together
    wallets,            \* what each configureWithWallet call produced
    loop                \* the locals of runAutonomousMode

vars == <<walletProvider, actionProviders, supported, event, lastResult,
          chain, lastInvoke, procs, account, pending, serial, wallets, loop>>

\* the variables of the wallet operations, of configuration and of the loop
walletVars == <<procs, account, pending, serial>>
configVars == <<wallets>>
loopVars == <<loop>>
agentVars == <<walletProvider, actionProviders, supported, event, lastResult, lastInvoke>>

\* messages the chain accepts from the wallet before its funds run out
MaxMessages == 2

\* calls each caller makes, one after the other
MaxCalls == 2

\* iterations of the autonomous loop that are followed
MaxIterations == 6

\* callers that hold the same wallet provider and invoke it independently
Procs == {"p1", "p2"}

NoMessage == [kind |-> "none"]
Unsettled == [kind |-> "pending", value |-> <<>>, error |-> <<>>]

\* an invocation that has not been made
IdleProc ==
    [op |-> "idle", n |-> 0, to |-> "", value |-> "", pc |-> "idle", seqno |-> -1,
     rpcs |-> <<>>, observed |-> <<>>, calls |-> <<>>, sent |-> NoMessage,
     result |-> Unsettled]

WalletIdle ==
    /\ procs = [p \in Procs |-> IdleProc]
    /\ account = [seqno |-> 0, balance |-> MaxMessages]
    /\ pending = {}
    /\ serial = TRUE

\* independent configureWithWallet calls
Slots == {"first", "second"}

NoWallet == [kind |-> "none"]

ConfigIdle == wallets = [s \in Slots |-> NoWallet]

\* runAutonomousMode has not been entered
LoopOff ==
    [pc |-> "off", interval |-> 0, consecutiveErrors |-> 0, slept |-> 0,
     outcomes |-> <<>>]

LoopIdle == loop = LoopOff

\* ------------------------------------------------------------------ ActionProvider
\* Reflect.getMetadata(ACTION_DECORATOR_KEY, provider.constructor)
getMetadata(provider) ==
    IF provider = "undef"
    THEN [kind |-> "throws",
          error |-> Err("TypeError", "Cannot read properties of undefined", NoCause)]
    ELSE StoredActionMetadata(Providers[provider].type)

\* the Action literal pushed for one metadata entry; its invoke closure keeps
\* the provider of the iteration, the metadata and the walletProvider argument
Action(provider, actionMetadata, w) ==
    [name |-> actionMetadata.name,
     provider |-> provider,
     method |-> actionMetadata.invoke,
     needsWallet |-> actionMetadata.walletProvider,
     walletProvider |-> w]

\* a throw inside the try block: `actions` holds what was pushed so far
Thrown(error, actions) == [kind |-> "throw", actions |-> actions, error |-> error]
Returned(actions) == [kind |-> "return", actions |-> actions, error |-> <<>>]

\* for (const actionMetadata of actionsMetadataMap.values()) actions.push({...})
RECURSIVE PushActions(_, _, _, _)
PushActions(entries, provider, w, actions) ==
    IF entries = <<>> THEN Returned(actions)
    ELSE IF IsNull(Head(entries).value)
         THEN Thrown(Err("TypeError", "Cannot read properties of null", NoCause), actions)
         ELSE Bind(Append(actions, Action(provider, Head(entries).value, w)),
                   LAMBDA pushed : PushActions(Tail(entries), provider, w, pushed))

\* supportsNetwork of each provider instance
supportsNetwork(provider, network) ==
    CASE Providers[provider].type = "WalletActionProvider" -> TRUE
      [] provider \in DynamicProviders -> network \in supported[provider]
      [] provider = "leaf" -> network = "mainnet"
      [] OTHER -> TRUE

\* mutant: every provider of allProviders is asked whether it supports the network
CollectStep_GatesEach(provider, w, actions) ==
    Bind(getMetadata(provider),
         LAMBDA actionsMetadataMap :
            CASE actionsMetadataMap.kind = "throws" -> Thrown(actionsMetadataMap.error, actions)
              [] actionsMetadataMap.kind = "undefined" -> Returned(actions)
              [] ~supportsNetwork(provider, getNetwork(w)) -> Returned(actions)
              [] OTHER -> PushActions(actionsMetadataMap.entries, provider, w, actions))

\* mutant: a provider without registered metadata is treated as an error
CollectStep_ThrowsOnMissing(provider, w, actions) ==
    Bind(getMetadata(provider),
         LAMBDA actionsMetadataMap :
            CASE actionsMetadataMap.kind = "throws" -> Thrown(actionsMetadataMap.error, actions)
              [] actionsMetadataMap.kind = "undefined" ->
                    Thrown(Err("Error", "no registered actions", NoCause), actions)
              [] OTHER -> PushActions(actionsMetadataMap.entries, provider, w, actions))

\* one iteration of `for (const provider of allProviders)`: the lookup, then
\* `continue` when nothing is registered, else the push loop
CollectStep(provider, w, actions) ==
    Bind(getMetadata(provider),
         LAMBDA actionsMetadataMap :
            CASE actionsMetadataMap.kind = "throws" -> Thrown(actionsMetadataMap.error, actions)
              [] actionsMetadataMap.kind = "undefined" -> Returned(actions)
              [] OTHER -> PushActions(actionsMetadataMap.entries, provider, w, actions))

RECURSIVE CollectActions(_, _, _)
CollectActions(allProviders, w, actions) ==
    IF allProviders = <<>> THEN Returned(actions)
    ELSE Bind(CollectStep(Head(allProviders), w, actions),
              LAMBDA step : IF step.kind = "throw" THEN step
                            ELSE CollectActions(Tail(allProviders), w, step.actions))

\* mutant: the children of the children are collected too
AllProviders_Deep(this) ==
    <<this>> \o Providers[this].actionProviders \o
    Flatten([i \in DOMAIN Providers[this].actionProviders |->
                IF Providers[this].actionProviders[i] = "undef" THEN <<>>
                ELSE Providers[Providers[this].actionProviders[i]].actionProviders])

\* allProviders = [this, ...this.actionProviders]
AllProviders(this) == <<this>> \o Providers[this].actionProviders

\* mutant: the catch hands back what was collected before the throw
ActionProvider_getActions_Partial(this, w) ==
    Bind(CollectActions(AllProviders(this), w, <<>>),
         LAMBDA body : IF body.kind = "throw" THEN Returned(body.actions) ELSE body)

\* ActionProvider.getActions(walletProvider): the try block and its catch
ActionProvider_getActions(this, w) ==
    Bind(CollectActions(AllProviders(this), w, <<>>),
         LAMBDA body :
            IF body.kind = "throw"
            THEN Thrown(Err("ActionProviderError", "Failed to get actions", body.error), <<>>)
            ELSE body)

\* ------------------------------------------------------------------ TonWalletProvider
\* the RPC operation that fails during one invocation, if any
Faults == {"none", "getState", "getBalance", "getSeqno", "sendTransfer", "deploy", "method"}

\* Address.parse accepts a well-formed address only
IsAddress(to) == to = "EQgood"

Ok(value, trace) == [ok |-> TRUE, value |-> value, error |-> <<>>, trace |-> trace]
Fail(error, trace) == [ok |-> FALSE, value |-> "", error |-> error, trace |-> trace]

\* TonWalletProvider.isDeployed
isDeployed(w, fault) ==
    IF fault = "getState"
    THEN Fail(Err("Error", "Failed to check if wallet is deployed", NoCause), <<"getState">>)
    ELSE Ok(chain[w] = "active", <<"getState">>)

\* TonWalletProvider.getBalance
getBalance(w, fault) ==
    IF fault = "getBalance"
    THEN Fail(Err("Error", "Failed to get wallet balance", NoCause), <<"getBalance">>)
    ELSE Ok("balance", <<"getBalance">>)

\* TonWalletProvider.nativeTransfer
nativeTransfer(w, to, value, fault) ==
    CASE ~IsAddress(to) ->
            Fail(Err("Error", "Failed to transfer TON", NoCause), <<>>)
      [] fault = "getSeqno" ->
            Fail(Err("Error", "Failed to transfer TON", NoCause), <<"getSeqno">>)
      [] fault = "sendTransfer" ->
            Fail(Err("Error", "Failed to transfer TON", NoCause), <<"getSeqno", "sendTransfer">>)
      [] OTHER -> Ok("txHash", <<"getSeqno", "sendTransfer">>)

\* TonWalletProvider.deploy
deploy(w, fault) ==
    LET deployed == isDeployed(w, fault)
    IN  CASE ~deployed.ok ->
                Fail(Err("Error", "Failed to deploy wallet", NoCause), deployed.trace)
          [] deployed.value -> Ok("Wallet is already deployed", deployed.trace)
          [] fault = "getSeqno" ->
                Fail(Err("Error", "Failed to deploy wallet", NoCause),
                     deployed.trace \o <<"getSeqno">>)
          [] fault = "deploy" ->
                Fail(Err("Error", "Failed to deploy wallet", NoCause),
                     deployed.trace \o <<"getSeqno", "deploy">>)
          [] OTHER -> Ok("deployHash", deployed.trace \o <<"getSeqno", "deploy">>)

\* ------------------------------------------------------------------ WalletActionProvider
\* the two kinds of argument an invoke closure passes to a method
WalletArg(w) == [walletProvider |-> w]
IsWalletArg(arg) == "walletProvider" \in DOMAIN arg

\* the argument objects a caller hands to invoke
SchemaArgs ==
    { [to |-> "EQgood", value |-> "1"], [to |-> "bad", value |-> "1"],
      [to |-> "", value |-> "1"], [to |-> "EQgood", value |-> ""] }

\* the outcome of a method call: a settled promise, or a synchronous return/throw
Outcome(kind, value, error, trace) ==
    [kind |-> kind, value |-> value, error |-> error, trace |-> trace]

WalletActionError(message, cause) == Err("WalletActionError", message, cause)

\* a method that takes (walletProvider, args) applied to the wrong argument list
NotAWallet == Err("TypeError", "walletProvider method is not a function", NoCause)

\* WalletActionProvider.getWalletDetails(walletProvider, _)
getWalletDetails(args, fault) ==
    IF ~IsWalletArg(args[1])
    THEN Outcome("rejected", "", WalletActionError("Failed to get wallet details", NotAWallet), <<>>)
    ELSE LET w == args[1].walletProvider
             balance == getBalance(w, fault)
             deployed == isDeployed(w, fault)
         IN  CASE ~balance.ok ->
                    Outcome("rejected", "",
                            WalletActionError("Failed to get wallet details", balance.error),
                            balance.trace)
               [] ~deployed.ok ->
                    Outcome("rejected", "",
                            WalletActionError("Failed to get wallet details", deployed.error),
                            balance.trace \o deployed.trace)
               [] OTHER ->
                    Outcome("resolved", <<"## Wallet Details", getNetwork(w), deployed.value>>,
                            <<>>, balance.trace \o deployed.trace)

\* WalletActionProvider.transferTon(walletProvider, args)
transferTon(args, fault) ==
    IF ~IsWalletArg(args[1]) \/ Len(args) < 2
    THEN Outcome("rejected", "", WalletActionError("Failed to transfer TON", NotAWallet), <<>>)
    ELSE LET w == args[1].walletProvider
             a == args[2]
             deployed == isDeployed(w, fault)
             currentBalance == getBalance(w, fault)
             txHash == nativeTransfer(w, a.to, a.value, fault)
         IN  CASE a.to = "" \/ a.value = "" ->
                    Outcome("rejected", "",
                            WalletActionError("Failed to transfer TON",
                               WalletActionError("Destination address and transfer amount are required",
                                                 NoCause)),
                            <<>>)
               [] ~deployed.ok ->
                    Outcome("rejected", "",
                            WalletActionError("Failed to transfer TON", deployed.error),
                            deployed.trace)
               [] ~deployed.value ->
                    Outcome("rejected", "",
                            WalletActionError("Failed to transfer TON",
                               WalletActionError("Wallet is not deployed. Please deploy the wallet first.",
                                                 NoCause)),
                            deployed.trace)
               [] ~currentBalance.ok ->
                    Outcome("rejected", "",
                            WalletActionError("Failed to transfer TON", currentBalance.error),
                            deployed.trace \o currentBalance.trace)
               [] ~txHash.ok ->
                    Outcome("rejected", "",
                            WalletActionError("Failed to transfer TON", txHash.error),
                            deployed.trace \o currentBalance.trace \o txHash.trace)
               [] OTHER ->
                    Outcome("resolved", <<"## Transfer Successful", txHash.value, a.to>>, <<>>,
                            deployed.trace \o currentBalance.trace \o txHash.trace)

\* WalletActionProvider.ensureWalletDeployed(walletProvider, _)
ensureWalletDeployed(args, fault) ==
    IF ~IsWalletArg(args[1])
    THEN Outcome("rejected", "", WalletActionError("Failed to deploy wallet", NotAWallet), <<>>)
    ELSE LET w == args[1].walletProvider
             deployed == isDeployed(w, fault)
             txHash == deploy(w, fault)
         IN  CASE ~deployed.ok ->
                    Outcome("rejected", "",
                            WalletActionError("Failed to deploy wallet", deployed.error),
                            deployed.trace)
               [] deployed.value ->
                    Outcome("resolved", <<"Wallet is already deployed and ready to use.">>,
                            <<>>, deployed.trace)
               [] ~txHash.ok ->
                    Outcome("rejected", "",
                            WalletActionError("Failed to deploy wallet", txHash.error),
                            deployed.trace \o txHash.trace)
               [] OTHER ->
                    Outcome("resolved", <<"## Wallet Deployment Initiated", txHash.value>>,
                            <<>>, deployed.trace \o txHash.trace)

\* a method of a user-defined provider: async ones settle a promise, the
\* others return or throw synchronously
CustomMethod(type, method, fault) ==
    LET member == CHOOSE m \in Range(ClassMembers(type)) : m.method = method
        failure == Err("Error", "custom method failed", NoCause)
    IN  IF member.isAsync
        THEN IF fault = "method" THEN Outcome("rejected", "", failure, <<>>)
             ELSE Outcome("resolved", <<method>>, <<>>, <<>>)
        ELSE IF fault = "method" THEN Outcome("thrown", "", failure, <<>>)
             ELSE Outcome("returned", <<method>>, <<>>, <<>>)

\* actionMetadata.invoke.apply(provider, args)
Apply(provider, method, args, fault) ==
    CASE method = "getWalletDetails" -> getWalletDetails(args, fault)
      [] method = "transferTon" -> transferTon(args, fault)
      [] method = "ensureWalletDeployed" -> ensureWalletDeployed(args, fault)
      [] OTHER -> CustomMethod(Providers[provider].type, method, fault)

\* mutant: the wallet provider is passed to every method
InvokeArgs_AlwaysWallet(action, schemaArgs) ==
    <<WalletArg(action.walletProvider), schemaArgs>>

\* args of the invoke closure: args[0] = walletProvider when the metadata
\* asks for it, then args.push(schemaArgs)
InvokeArgs(action, schemaArgs) ==
    IF action.needsWallet
    THEN <<WalletArg(action.walletProvider), schemaArgs>>
    ELSE <<schemaArgs>>

\* mutant: the promise is awaited inside the try, so rejections are wrapped too
InvokeCatch_Awaits(action, outcome) ==
    IF outcome.kind \in {"thrown", "rejected"}
    THEN [outcome EXCEPT !.error = Err("ActionProviderError", "Failed to invoke action", @)]
    ELSE outcome

\* the catch of the invoke closure: it sees synchronous throws only, since the
\* promise of an async method is returned without being awaited
InvokeCatch(action, outcome) ==
    IF outcome.kind = "thrown"
    THEN [outcome EXCEPT !.error = Err("ActionProviderError", "Failed to invoke action", @)]
    ELSE outcome

\* action.invoke(schemaArgs)
invoke(action, schemaArgs, fault) ==
    LET args == InvokeArgs(action, schemaArgs)
    IN  [action |-> action,
         schemaArgs |-> schemaArgs,
         fault |-> fault,
         call |-> [this |-> action.provider, method |-> action.method, args |-> args],
         outcome |-> InvokeCatch(action, Apply(action.provider, action.method, args, fault))]

NoInvoke == [call |-> [method |-> "none"]]

\* ------------------------------------------------------------------ invocations, await by await
\* Every await of an RPC is a point where another invocation can run. The pc
\* of an invocation names the RPC it is waiting for; the operators below are
\* the code that runs between two awaits.

\* the wallet provider every invocation is made on
SharedWallet == "testnet"

Text(s) == [text |-> s]

\* an external message signed by the wallet, and its hash
Message(by, kind, seqno) == [by |-> by, kind |-> kind, seqno |-> seqno]
TxHash(message) == [hash |-> message]

\* the calls a caller can make: wallet provider methods and wallet actions
WalletCalls ==
    { [op |-> "deploy", to |-> "", value |-> ""],
      [op |-> "getBalance", to |-> "", value |-> ""],
      [op |-> "ensure_wallet_deployed", to |-> "", value |-> ""],
      [op |-> "nativeTransfer", to |-> "EQgood", value |-> "1"],
      [op |-> "nativeTransfer", to |-> "bad", value |-> "1"] }
    \cup { [op |-> "transfer_ton", to |-> a.to, value |-> a.value] : a \in SchemaArgs }

IsAction(op) == op \in {"transfer_ton", "ensure_wallet_deployed"}

\* the message of the catch block of each wallet action
ActionFailure(op) ==
    IF op = "transfer_ton" THEN "Failed to transfer TON" ELSE "Failed to deploy wallet"

\* the invocation fails: a wallet action wraps what reached its catch block
Rejects(proc, error) ==
    [proc EXCEPT !.pc = "done",
                 !.result = [kind |-> "rejected", value |-> <<>>,
                             error |-> IF IsAction(proc.op)
                                       THEN WalletActionError(ActionFailure(proc.op), error)
                                       ELSE error]]

Resolves(proc, value) ==
    [proc EXCEPT !.pc = "done",
                 !.result = [kind |-> "resolved", value |-> value, error |-> <<>>]]

\* a wallet provider method returns: a wallet action builds its report from
\* the returned value, a direct call hands the value to the caller
Returns(proc, value) ==
    CASE proc.op = "transfer_ton" ->
            Resolves(proc, <<Text("## Transfer Successful"), value, Text(proc.to)>>)
      [] proc.op = "ensure_wallet_deployed" ->
            Resolves(proc, <<Text("## Wallet Deployment Initiated"), value>>)
      [] OTHER -> Resolves(proc, <<value>>)

\* mutant: a sequence number held by an invocation in flight is not handed out again
ReadSeqno_Reserving(proc) ==
    account.seqno + Cardinality({q \in Procs : procs[q].seqno = account.seqno
                                               /\ procs[q].pc # "done"})

\* this.contract.getSeqno(): the sequence number the chain holds now
ReadSeqno(proc) == account.seqno

\* nativeTransfer up to its first await: Address.parse, then toNano
NativeTransfer_Begin(proc) ==
    LET called == [proc EXCEPT !.calls = Append(@, "nativeTransfer")]
    IN  IF ~IsAddress(proc.to)
        THEN Rejects(called, Err("Error", "Failed to transfer TON", NoCause))
        ELSE [called EXCEPT !.pc = "nativeTransfer.getSeqno"]

\* nativeTransfer after await this.contract.getSeqno()
NativeTransfer_AfterGetSeqno(proc, ok) ==
    LET q == [proc EXCEPT !.rpcs = Append(@, "getSeqno")]
    IN  IF ~ok
        THEN Rejects(q, Err("Error", "Failed to transfer TON", NoCause))
        ELSE [q EXCEPT !.seqno = ReadSeqno(proc), !.pc = "nativeTransfer.sendTransfer"]

\* nativeTransfer after await this.contract.sendTransfer({seqno, ...})
NativeTransfer_AfterSendTransfer(proc, by, ok) ==
    LET q == [proc EXCEPT !.rpcs = Append(@, "sendTransfer")]
        message == Message(by, "transfer", proc.seqno)
    IN  IF ~ok
        THEN Rejects(q, Err("Error", "Failed to transfer TON", NoCause))
        ELSE Returns([q EXCEPT !.sent = message], TxHash(message))

\* mutant: deploy goes on to read the sequence number whatever isDeployed said
Deploy_AfterIsDeployed_Unchecked(proc, ok) ==
    LET q == [proc EXCEPT !.rpcs = Append(@, "getState"),
                          !.observed = IF ok THEN Append(@, chain[SharedWallet]) ELSE @]
    IN  IF ~ok
        THEN Rejects(q, Err("Error", "Failed to deploy wallet", NoCause))
        ELSE [q EXCEPT !.pc = "deploy.getSeqno"]

\* deploy after await this.isDeployed()
Deploy_AfterIsDeployed(proc, ok) ==
    LET q == [proc EXCEPT !.rpcs = Append(@, "getState"),
                          !.observed = IF ok THEN Append(@, chain[SharedWallet]) ELSE @]
    IN  CASE ~ok -> Rejects(q, Err("Error", "Failed to deploy wallet", NoCause))
          [] chain[SharedWallet] = "active" -> Returns(q, Text("Wallet is already deployed"))
          [] OTHER -> [q EXCEPT !.pc = "deploy.getSeqno"]

\* deploy after await this.contract.getSeqno()
Deploy_AfterGetSeqno(proc, ok) ==
    LET q == [proc EXCEPT !.rpcs = Append(@, "getSeqno")]
    IN  IF ~ok
        THEN Rejects(q, Err("Error", "Failed to deploy wallet", NoCause))
        ELSE [q EXCEPT !.seqno = ReadSeqno(proc), !.pc = "deploy.deploy"]

\* deploy after await this.contract.deploy({seqno, secretKey})
Deploy_AfterDeploy(proc, by, ok) ==
    LET q == [proc EXCEPT !.rpcs = Append(@, "deploy")]
        message == Message(by, "deploy", proc.seqno)
    IN  IF ~ok
        THEN Rejects(q, Err("Error", "Failed to deploy wallet", NoCause))
        ELSE Returns([q EXCEPT !.sent = message], TxHash(message))

\* getBalance after await this.contract.getBalance()
GetBalance_AfterGetBalance(proc, ok) ==
    LET q == [proc EXCEPT !.rpcs = Append(@, "getBalance")]
    IN  IF ~ok
        THEN Rejects(q, Err("Error", "Failed to get wallet balance", NoCause))
        ELSE Returns(q, [balance |-> account.balance])

\* deploy up to its first await
Deploy_Begin(proc) ==
    [proc EXCEPT !.calls = Append(@, "deploy"), !.pc = "deploy.isDeployed"]

\* transferTon up to its first await: the check of args.to and args.value
TransferTon_Begin(proc) ==
    IF proc.to = "" \/ proc.value = ""
    THEN Rejects(proc, WalletActionError("Destination address and transfer amount are required",
                                         NoCause))
    ELSE [proc EXCEPT !.calls = Append(@, "isDeployed"), !.pc = "transfer_ton.isDeployed"]

\* mutant: transferTon goes on to the transfer whatever isDeployed said
TransferTon_AfterIsDeployed_Unchecked(proc, ok) ==
    LET q == [proc EXCEPT !.rpcs = Append(@, "getState"),
                          !.observed = IF ok THEN Append(@, chain[SharedWallet]) ELSE @]
    IN  IF ~ok
        THEN Rejects(q, Err("Error", "Failed to check if wallet is deployed", NoCause))
        ELSE [q EXCEPT !.calls = Append(@, "getBalance"), !.pc = "transfer_ton.getBalance"]

\* transferTon after await walletProvider.isDeployed()
TransferTon_AfterIsDeployed(proc, ok) ==
    LET q == [proc EXCEPT !.rpcs = Append(@, "getState"),
                          !.observed = IF ok THEN Append(@, chain[SharedWallet]) ELSE @]
    IN  CASE ~ok ->
                Rejects(q, Err("Error", "Failed to check if wallet is deployed", NoCause))
          [] chain[SharedWallet] # "active" ->
                Rejects(q, WalletActionError(
                               "Wallet is not deployed. Please deploy the wallet first.",
                               NoCause))
          [] OTHER ->
                [q EXCEPT !.calls = Append(@, "getBalance"), !.pc = "transfer_ton.getBalance"]

\* transferTon after await walletProvider.getBalance(): it calls nativeTransfer
TransferTon_AfterGetBalance(proc, ok) ==
    LET q == [proc EXCEPT !.rpcs = Append(@, "getBalance")]
    IN  IF ~ok
        THEN Rejects(q, Err("Error", "Failed to get wallet balance", NoCause))
        ELSE NativeTransfer_Begin(q)

\* ensureWalletDeployed up to its first await
EnsureWalletDeployed_Begin(proc) ==
    [proc EXCEPT !.calls = Append(@, "isDeployed"),
                 !.pc = "ensure_wallet_deployed.isDeployed"]

\* ensureWalletDeployed after await walletProvider.isDeployed(): it calls deploy
EnsureWalletDeployed_AfterIsDeployed(proc, ok) ==
    LET q == [proc EXCEPT !.rpcs = Append(@, "getState"),
                          !.observed = IF ok THEN Append(@, chain[SharedWallet]) ELSE @]
    IN  CASE ~ok ->
                Rejects(q, Err("Error", "Failed to check if wallet is deployed", NoCause))
          [] chain[SharedWallet] = "active" ->
                Resolves(q, <<Text("Wallet is already deployed and ready to use.")>>)
          [] OTHER -> Deploy_Begin(q)

\* a caller makes a call: the code up to the first await runs at once
Begin(call, n) ==
    LET proc == [IdleProc EXCEPT !.op = call.op, !.n = n + 1,
                                 !.to = call.to, !.value = call.value]
    IN  CASE call.op = "deploy" -> Deploy_Begin(proc)
          [] call.op = "nativeTransfer" -> NativeTransfer_Begin(proc)
          [] call.op = "getBalance" ->
                [proc EXCEPT !.calls = <<"getBalance">>, !.pc = "getBalance.getBalance"]
          [] call.op = "transfer_ton" -> TransferTon_Begin(proc)
          [] OTHER -> EnsureWalletDeployed_Begin(proc)

\* the awaited RPC settles and the code up to the next await runs
Resume(proc, by, ok) ==
    CASE proc.pc = "deploy.isDeployed" -> Deploy_AfterIsDeployed(proc, ok)
      [] proc.pc = "deploy.getSeqno" -> Deploy_AfterGetSeqno(proc, ok)
      [] proc.pc = "deploy.deploy" -> Deploy_AfterDeploy(proc, by, ok)
      [] proc.pc = "nativeTransfer.getSeqno" -> NativeTransfer_AfterGetSeqno(proc, ok)
      [] proc.pc = "nativeTransfer.sendTransfer" ->
            NativeTransfer_AfterSendTransfer(proc, by, ok)
      [] proc.pc = "getBalance.getBalance" -> GetBalance_AfterGetBalance(proc, ok)
      [] proc.pc = "transfer_ton.isDeployed" -> TransferTon_AfterIsDeployed(proc, ok)
      [] proc.pc = "transfer_ton.getBalance" -> TransferTon_AfterGetBalance(proc, ok)
      [] OTHER -> EnsureWalletDeployed_AfterIsDeployed(proc, ok)

InFlight(proc) == proc.pc \notin {"idle", "done"}

\* ------------------------------------------------------------------ configureWithWallet
\* A config is a record that holds some of the fields of Config. A phrase is
\* the sequence of pieces between single spaces; a piece is a word with or
\* without whitespace around it.
Piece(word, padded) == [word |-> word, padded |-> padded]

Phrases ==
    { <<>>,
      <<Piece("abandon", FALSE), Piece("ability", FALSE)>>,
      <<Piece("abandon", FALSE), Piece("ability", TRUE)>>,
      <<Piece("ability", FALSE), Piece("abandon", FALSE)>> }

ConfigFields ==
    {"TONCENTER_API_URL", "TONCENTER_API_KEY", "MNEMONIC_PHRASE", "WORKCHAIN", "NETWORK"}

FullConfigs ==
    [TONCENTER_API_URL : {"https://rpc1", "https://rpc2"},
     TONCENTER_API_KEY : {"key"},
     MNEMONIC_PHRASE : Phrases,
     WORKCHAIN : {-1},
     NETWORK : {"testnet"}]

Configs == {[k \in present |-> full[k]] : full \in FullConfigs, present \in SUBSET ConfigFields}

\* the falsy value of each field
Blank(k) ==
    CASE k = "MNEMONIC_PHRASE" -> <<>>
      [] k = "WORKCHAIN" -> 0
      [] OTHER -> ""

\* !config[k]
Missing(config, k) == k \notin DOMAIN config \/ config[k] = Blank(k)

WalletProviderError(message, cause) == Err("WalletProviderError", message, cause)

\* mnemonicPhrase.split(" ").map(word => word.trim())
SplitTrim(phrase) == [i \in DOMAIN phrase |-> phrase[i].word]

\* mnemonicToPrivateKey: one key pair per word list
KeyPair(mnemonic) == [publicKey |-> <<"public", mnemonic>>, secretKey |-> <<"secret", mnemonic>>]

\* WalletContractV4.create({workchain, publicKey}).address
WalletAddress(workchain, publicKey) == [workchain |-> workchain, publicKey |-> publicKey]

\* mutant: the workchain is taken from the network
Workchain_OfNetwork(config) ==
    IF Missing(config, "NETWORK") THEN 0 ELSE -1

\* config.WORKCHAIN || 0
Workchain(config) ==
    IF Missing(config, "WORKCHAIN") THEN 0 ELSE config.WORKCHAIN

NoProvider == [kind |-> "none"]

\* the promise of configureWithWallet rejects after the steps it took
ConfigFails(via, config, error, steps) ==
    [kind |-> "rejected", via |-> via, config |-> config, steps |-> steps,
     error |-> error, provider |-> NoProvider]

\* new TonWalletProvider({wallet, contract, tonClient, keyPair, network, workchain})
TonWalletProvider(config, workchain, keyPair) ==
    [kind |-> "TonWalletProvider",
     address |-> WalletAddress(workchain, keyPair.publicKey),
     endpoint |-> config.TONCENTER_API_URL,
     network |-> IF Missing(config, "NETWORK") THEN "mainnet" ELSE config.NETWORK,
     workchain |-> workchain,
     lastOp |-> "none"]

\* mutant: the RPC client is created before the fields are checked
configureWithWallet_ClientFirst(config, fault) ==
    CASE Missing(config, "TONCENTER_API_URL") \/ Missing(config, "TONCENTER_API_KEY") ->
            ConfigFails("configureWithWallet", config,
                        WalletProviderError(
                            "TONCENTER_API_URL and TONCENTER_API_KEY are required", NoCause),
                        <<"new TonClient">>)
      [] Missing(config, "MNEMONIC_PHRASE") ->
            ConfigFails("configureWithWallet", config,
                        WalletProviderError("MNEMONIC_PHRASE is required", NoCause),
                        <<"new TonClient">>)
      [] OTHER ->
            [kind |-> "provider", via |-> "configureWithWallet", config |-> config,
             steps |-> <<"new TonClient", "mnemonicToPrivateKey", "WalletContractV4.create",
                         "tonClient.open">>,
             error |-> <<>>,
             provider |-> TonWalletProvider(config, Workchain(config),
                                            KeyPair(SplitTrim(config.MNEMONIC_PHRASE)))]

\* WalletProvider.configureWithWallet(config); fault names the library call
\* that throws, if one does
configureWithWallet(config, fault) ==
    CASE Missing(config, "TONCENTER_API_URL") \/ Missing(config, "TONCENTER_API_KEY") ->
            ConfigFails("configureWithWallet", config,
                        WalletProviderError(
                            "TONCENTER_API_URL and TONCENTER_API_KEY are required", NoCause),
                        <<>>)
      [] Missing(config, "MNEMONIC_PHRASE") ->
            ConfigFails("configureWithWallet", config,
                        WalletProviderError("MNEMONIC_PHRASE is required", NoCause),
                        <<>>)
      [] fault = "mnemonicToPrivateKey" ->
            ConfigFails("configureWithWallet", config,
                        WalletProviderError("Failed to configure wallet provider",
                                            Err("Error", "mnemonicToPrivateKey failed", NoCause)),
                        <<"new TonClient", "mnemonicToPrivateKey">>)
      [] OTHER ->
            [kind |-> "provider", via |-> "configureWithWallet", config |-> config,
             steps |-> <<"new TonClient", "mnemonicToPrivateKey", "WalletContractV4.create",
                         "tonClient.open">>,
             error |-> <<>>,
             provider |-> TonWalletProvider(config, Workchain(config),
                                            KeyPair(SplitTrim(config.MNEMONIC_PHRASE)))]

\* TonAgent.from(config) for a config that brings no walletProvider
TonAgent_from(config, fault) ==
    IF Missing(config, "TONCENTER_API_URL") \/ Missing(config, "TONCENTER_API_KEY")
    THEN ConfigFails("TonAgent.from", config,
                     Err("Error",
                         "TONCENTER_API_URL and TONCENTER_API_KEY are required if not providing a walletProvider",
                         NoCause),
                     <<>>)
    ELSE [configureWithWallet(config, fault) EXCEPT !.via = "TonAgent.from"]

\* this.wallet.address.toString()
getAddress(wallet) == wallet.provider.address

\* ------------------------------------------------------------------ runAutonomousMode
MAX_CONSECUTIVE_ERRORS == 3

\* the default of the interval parameter, and the cap of the backoff
DefaultInterval == 10
MaxBackoff == 30

\* the INTERVAL_SECONDS values the loop is entered with
Intervals == {5, DefaultInterval, 20}

Min(a, b) == IF a < b THEN a ELSE b

\* mutant: a successful iteration leaves the counter as it is
AfterSuccess_KeepsCount(l) ==
    [l EXCEPT !.pc = "sleep",
              !.slept = l.interval,
              !.outcomes = Append(@, "ok")]

\* the end of the try block: consecutiveErrors = 0, then sleep for interval
AfterSuccess(l) ==
    [l EXCEPT !.consecutiveErrors = 0,
              !.pc = "sleep",
              !.slept = l.interval,
              !.outcomes = Append(@, "ok")]

\* the catch block: count the failure, rethrow at the maximum, else back off
AfterFailure(l) ==
    LET count == l.consecutiveErrors + 1
    IN  IF count >= MAX_CONSECUTIVE_ERRORS
        THEN [l EXCEPT !.consecutiveErrors = count,
                       !.pc = "aborted",
                       !.outcomes = Append(@, "fail")]
        ELSE [l EXCEPT !.consecutiveErrors = count,
                       !.pc = "backoff",
                       !.slept = Min(MaxBackoff, l.interval * count),
                       !.outcomes = Append(@, "fail")]

\* ------------------------------------------------------------------ TonAgent
\* constructor: config.actionProviders || [walletActionProvider]
TonAgent(config) ==
    [walletProvider |-> config.walletProvider,
     actionProviders |-> IF "actionProviders" \in DOMAIN config
                         THEN config.actionProviders
                         ELSE <<walletActionProvider>>]

\* the locals of TonAgent.getActions while its loop runs
Locals(kind, actions, unsupported, error) ==
    [kind |-> kind, actions |-> actions, unsupported |-> unsupported, error |-> error]

\* mutant: an unsupported provider is dropped without being reported
AgentStep_Silent(actionProvider, w, acc) ==
    IF supportsNetwork(actionProvider, getNetwork(w))
    THEN Bind(ActionProvider_getActions(actionProvider, w),
              LAMBDA got :
                 IF got.kind = "throw"
                 THEN Locals("throw", acc.actions, acc.unsupported, got.error)
                 ELSE Locals("return", acc.actions \o got.actions, acc.unsupported, <<>>))
    ELSE acc

\* mutant: the actions of a provider are put in front of the list
AgentStep_Prepends(actionProvider, w, acc) ==
    IF supportsNetwork(actionProvider, getNetwork(w))
    THEN Bind(ActionProvider_getActions(actionProvider, w),
              LAMBDA got :
                 IF got.kind = "throw"
                 THEN Locals("throw", acc.actions, acc.unsupported, got.error)
                 ELSE Locals("return", got.actions \o acc.actions, acc.unsupported, <<>>))
    ELSE Locals("return", acc.actions, Append(acc.unsupported, Providers[actionProvider].name), <<>>)

\* one iteration of `for (const actionProvider of this.actionProviders)`
AgentStep(actionProvider, w, acc) ==
    IF supportsNetwork(actionProvider, getNetwork(w))
    THEN Bind(ActionProvider_getActions(actionProvider, w),
              LAMBDA got :
                 IF got.kind = "throw"
                 THEN Locals("throw", acc.actions, acc.unsupported, got.error)
                 ELSE Locals("return", acc.actions \o got.actions, acc.unsupported, <<>>))
    ELSE Locals("return", acc.actions, Append(acc.unsupported, Providers[actionProvider].name), <<>>)

RECURSIVE AgentLoop(_, _, _)
AgentLoop(providers, w, acc) ==
    IF providers = <<>> THEN acc
    ELSE Bind(AgentStep(Head(providers), w, acc),
              LAMBDA step : IF step.kind = "throw" THEN step
                            ELSE AgentLoop(Tail(providers), w, step))

\* mutant: the list of the previous call is kept and handed out again
TonAgent_getActions_Cached(providers, w) ==
    IF lastResult.kind = "return" /\ event.op # "ActionProvider.getActions"
    THEN lastResult
    ELSE Bind(AgentLoop(providers, w, Locals("return", <<>>, <<>>, <<>>)),
              LAMBDA end :
                 [kind |-> end.kind,
                  actions |-> IF end.kind = "throw" THEN <<>> ELSE end.actions,
                  unsupported |-> end.unsupported,
                  warning |-> IF end.kind = "return" /\ Len(end.unsupported) > 0
                              THEN end.unsupported ELSE <<>>,
                  error |-> end.error])

\* TonAgent.getActions(): fresh locals, the loop, the warning, the return
TonAgent_getActions(providers, w) ==
    Bind(AgentLoop(providers, w, Locals("return", <<>>, <<>>, <<>>)),
         LAMBDA end :
            [kind |-> end.kind,
             actions |-> IF end.kind = "throw" THEN <<>> ELSE end.actions,
             unsupported |-> end.unsupported,
             warning |-> IF end.kind = "return" /\ Len(end.unsupported) > 0
                         THEN end.unsupported ELSE <<>>,
             error |-> end.error])

NoResult ==
    [kind |-> "none", actions |-> <<>>, unsupported |-> <<>>, warning |-> <<>>,
     error |-> <<>>]

\* ------------------------------------------------------------------ actions
\* new TonAgent({walletProvider, actionProviders})
Init ==
    \E config \in [walletProvider : WalletProviders] \cup
                   [walletProvider : WalletProviders,
                    actionProviders : SeqsUpTo(ProviderIds, MaxProviders)] :
        LET agent == TonAgent(config)
            w == agent.walletProvider
        IN  /\ walletProvider = agent.walletProvider
            /\ actionProviders = agent.actionProviders
            /\ supported = [p \in DynamicProviders |-> Networks]
            /\ event = [op |-> "new", provider |-> "none", walletProvider |-> w]
            /\ lastResult = NoResult
            /\ chain = [x \in WalletProviders |-> "uninit"]
            /\ lastInvoke = NoInvoke
            /\ WalletIdle /\ ConfigIdle /\ LoopIdle

\* agent.getActions()
AgentGetActions ==
    /\ lastResult' = TonAgent_getActions(actionProviders, walletProvider)
    /\ event' = [op |-> "TonAgent.getActions", provider |-> "none",
                 walletProvider |-> walletProvider]
    /\ UNCHANGED <<walletProvider, actionProviders, supported, chain, lastInvoke,
                   walletVars, configVars, loopVars>>

\* provider.getActions(w), called directly on any provider with any wallet
ProviderGetActions ==
    \E p \in ProviderIds, w \in WalletProviders :
        /\ lastResult' = Bind(ActionProvider_getActions(p, w),
                              LAMBDA got : [kind |-> got.kind, actions |-> got.actions,
                                            unsupported |-> <<>>, warning |-> <<>>,
                                            error |-> got.error])
        /\ event' = [op |-> "ActionProvider.getActions", provider |-> p,
                     walletProvider |-> w]
        /\ UNCHANGED <<walletProvider, actionProviders, supported, chain, lastInvoke,
                   walletVars, configVars, loopVars>>

\* a dynamic provider starts or stops accepting a network
SupportChanges ==
    \E p \in DynamicProviders, n \in Networks :
        /\ supported' = [supported EXCEPT ![p] =
                            IF n \in @ THEN @ \ {n} ELSE @ \cup {n}]
        /\ event' = [op |-> "supportChanges", provider |-> p,
                     walletProvider |-> walletProvider]
        /\ UNCHANGED <<walletProvider, actionProviders, lastResult, chain, lastInvoke,
                   walletVars, configVars, loopVars>>

Next == AgentGetActions \/ ProviderGetActions \/ SupportChanges

Spec == Init /\ [][Next]_vars

\* ------------------------------------------------------------------ dispatch
\* an agent over a wallet action provider composed with child providers
InitInvoke ==
    \E config \in [walletProvider : WalletProviders, actionProviders : {<<"wapKids">>}] :
        LET agent == TonAgent(config)
        IN  /\ walletProvider = agent.walletProvider
            /\ actionProviders = agent.actionProviders
            /\ supported = [p \in DynamicProviders |-> Networks]
            /\ event = [op |-> "new", provider |-> "none",
                        walletProvider |-> agent.walletProvider]
            /\ lastResult = NoResult
            /\ chain = [x \in WalletProviders |-> "uninit"]
            /\ lastInvoke = NoInvoke
            /\ WalletIdle /\ ConfigIdle /\ LoopIdle

\* the caller invokes one of the actions it was handed by the last getActions
Invoke ==
    \E i \in DOMAIN lastResult.actions, schemaArgs \in SchemaArgs, fault \in Faults :
        /\ lastInvoke' = invoke(lastResult.actions[i], schemaArgs, fault)
        /\ event' = [event EXCEPT !.op = "invoke"]
        /\ UNCHANGED <<walletProvider, actionProviders, supported, lastResult, chain,
                   walletVars, configVars, loopVars>>

\* the account of the agent's wallet becomes active on chain
Activate ==
    \E w \in {walletProvider} :
        /\ chain[w] = "uninit"
        /\ chain' = [chain EXCEPT ![w] = "active"]
        /\ event' = [event EXCEPT !.op = "activate"]
        /\ UNCHANGED <<walletProvider, actionProviders, supported, lastResult, lastInvoke,
                   walletVars, configVars, loopVars>>

NextInvoke == AgentGetActions \/ ProviderGetActions \/ Invoke \/ Activate

SpecInvoke == InitInvoke /\ [][NextInvoke]_vars

\* ------------------------------------------------------------------ wallet operations
\* two callers share the wallet provider of one wallet, deployed or not
InitWallet ==
    /\ walletProvider = SharedWallet
    /\ actionProviders = <<walletActionProvider>>
    /\ supported = [p \in DynamicProviders |-> Networks]
    /\ event = [op |-> "new", provider |-> "none", walletProvider |-> SharedWallet]
    /\ lastResult = NoResult
    /\ lastInvoke = NoInvoke
    /\ chain \in [WalletProviders -> {"uninit", "active"}]
    /\ chain["undefined"] = "uninit"
    /\ WalletIdle /\ ConfigIdle /\ LoopIdle

\* a caller that has no invocation in flight makes a call
Start ==
    \E p \in Procs, call \in WalletCalls :
        /\ ~InFlight(procs[p])
        /\ procs[p].n < MaxCalls
        /\ procs' = [procs EXCEPT ![p] = Begin(call, procs[p].n)]
        /\ serial' = (serial /\ (~InFlight(procs'[p])
                                 \/ \A q \in Procs \ {p} : ~InFlight(procs[q])))
        /\ UNCHANGED <<agentVars, chain, account, pending, configVars, loopVars>>

\* the RPC an invocation awaits succeeds or fails
RpcSettles ==
    \E p \in Procs, ok \in BOOLEAN :
        /\ InFlight(procs[p])
        /\ procs' = [procs EXCEPT ![p] = Resume(procs[p], p, ok)]
        /\ pending' = IF procs'[p].sent # procs[p].sent
                      THEN pending \cup {procs'[p].sent}
                      ELSE pending
        /\ UNCHANGED <<agentVars, chain, account, serial, configVars, loopVars>>

\* the chain processes a submitted message: it accepts the message that
\* carries the account's sequence number and drops any other
ChainAccepts ==
    \E m \in pending :
        /\ pending' = pending \ {m}
        /\ IF /\ m.seqno = account.seqno
              /\ account.seqno < MaxMessages
              /\ (m.kind = "deploy" \/ chain[SharedWallet] = "active")
           THEN /\ account' = [seqno |-> account.seqno + 1,
                               balance |-> account.balance - 1]
                /\ chain' = [chain EXCEPT ![SharedWallet] = "active"]
           ELSE UNCHANGED <<account, chain>>
        /\ UNCHANGED <<agentVars, procs, serial, configVars, loopVars>>

NextWallet == Start \/ RpcSettles \/ ChainAccepts

SpecWallet == InitWallet /\ [][NextWallet]_vars

\* ------------------------------------------------------------------ configuration
InitConfig ==
    /\ walletProvider = SharedWallet
    /\ actionProviders = <<walletActionProvider>>
    /\ supported = [p \in DynamicProviders |-> Networks]
    /\ event = [op |-> "new", provider |-> "none", walletProvider |-> SharedWallet]
    /\ lastResult = NoResult
    /\ lastInvoke = NoInvoke
    /\ chain = [x \in WalletProviders |-> "uninit"]
    /\ WalletIdle /\ ConfigIdle /\ LoopIdle

\* WalletProvider.configureWithWallet(config), called once for each slot
Configure ==
    \E s \in Slots, config \in Configs, fault \in {"none", "mnemonicToPrivateKey"} :
        /\ wallets[s] = NoWallet
        /\ wallets' = [wallets EXCEPT ![s] = configureWithWallet(config, fault)]
        /\ UNCHANGED <<agentVars, chain, walletVars, loopVars>>

\* TonAgent.from(config) without a walletProvider
AgentFrom ==
    \E s \in Slots, config \in Configs, fault \in {"none", "mnemonicToPrivateKey"} :
        /\ wallets[s] = NoWallet
        /\ wallets' = [wallets EXCEPT ![s] = TonAgent_from(config, fault)]
        /\ UNCHANGED <<agentVars, chain, walletVars, loopVars>>

\* an operation of a configured provider: none of them assigns this.wallet
Operate ==
    \E s \in Slots, op \in {"nativeTransfer", "deploy"} :
        /\ wallets[s].kind = "provider"
        /\ wallets' = [wallets EXCEPT ![s].provider.lastOp = op]
        /\ UNCHANGED <<agentVars, chain, walletVars, loopVars>>

NextConfig == Configure \/ AgentFrom \/ Operate

SpecConfig == InitConfig /\ [][NextConfig]_vars

\* ------------------------------------------------------------------ autonomous loop
InitLoop ==
    /\ walletProvider = SharedWallet
    /\ actionProviders = <<walletActionProvider>>
    /\ supported = [p \in DynamicProviders |-> Networks]
    /\ event = [op |-> "new", provider |-> "none", walletProvider |-> SharedWallet]
    /\ lastResult = NoResult
    /\ lastInvoke = NoInvoke
    /\ chain = [x \in WalletProviders |-> "uninit"]
    /\ WalletIdle /\ ConfigIdle /\ LoopIdle

\* runAutonomousMode(agent, config, interval) is entered
EnterLoop ==
    \E interval \in Intervals :
        /\ loop.pc = "off"
        /\ loop' = [loop EXCEPT !.pc = "try", !.interval = interval]
        /\ UNCHANGED <<agentVars, chain, walletVars, configVars>>

\* agent.stream and the iteration over its chunks complete
IterationSucceeds ==
    /\ loop.pc = "try"
    /\ Len(loop.outcomes) < MaxIterations
    /\ loop' = AfterSuccess(loop)
    /\ UNCHANGED <<agentVars, chain, walletVars, configVars>>

\* agent.stream or the iteration over its chunks throws
IterationFails ==
    /\ loop.pc = "try"
    /\ Len(loop.outcomes) < MaxIterations
    /\ loop' = AfterFailure(loop)
    /\ UNCHANGED <<agentVars, chain, walletVars, configVars>>

\* the timer of the sleep or of the backoff fires: next turn of while (true)
TimerFires ==
    /\ loop.pc \in {"sleep", "backoff"}
    /\ loop' = [loop EXCEPT !.pc = "try"]
    /\ UNCHANGED <<agentVars, chain, walletVars, configVars>>

NextLoop == EnterLoop \/ IterationSucceeds \/ IterationFails \/ TimerFires

SpecLoop == InitLoop /\ [][NextLoop]_vars

\* ================================================================== properties
AfterAgentCall == event.op = "TonAgent.getActions"
AfterProviderCall == event.op = "ActionProvider.getActions"

\* the network the agent's wallet is bound to
BoundNetwork == getNetwork(walletProvider)

Supports(p) == supportsNetwork(p, BoundNetwork)
Unsupported(p) == ~Supports(p)

NameOf(p) == Providers[p].name

Occurrences(seq, x) == Cardinality({i \in DOMAIN seq : seq[i] = x})

\* the actions of a list that are bound to provider p
OwnedBy(actions, p) == SelectSeq(actions, LAMBDA a : a.provider = p)

NamesOf(actions) == [i \in DOMAIN actions |-> actions[i].name]

Children(p) == Range(Providers[p].actionProviders) \ {"undef"}

\* a provider for which the lookup or the building of an action throws
Throws(p) == p = "undef" \/ Providers[p].type = "CorruptProvider"

NoMetadata(p) == p # "undef" /\ StoredActionMetadata(Providers[p].type).kind = "undefined"

\* the attached providers whose own getActions throws
FailingAttached ==
    {i \in DOMAIN actionProviders :
        /\ Supports(actionProviders[i])
        /\ \E q \in Range(AllProviders(actionProviders[i])) : Throws(q)}

\* C1 (as stated): after a call of TonAgent.getActions, every attached
\* provider that does not support the bound network has none of its actions
\* in the returned list and its name exactly once in the skipped list, and
\* the call fails only when a supporting provider's getActions throws.
C1_AsStated ==
    AfterAgentCall =>
        /\ lastResult.kind = "throw" => FailingAttached # {}
        /\ lastResult.kind = "return" =>
              \A i \in DOMAIN actionProviders :
                 Unsupported(actionProviders[i]) =>
                    /\ OwnedBy(lastResult.actions, actionProviders[i]) = <<>>
                    /\ Occurrences(lastResult.unsupported, NameOf(actionProviders[i])) = 1

\* C1 (amended): the skipped list is the names of the unsupported entries of
\* actionProviders, one per entry and in list order; an action bound to an
\* unsupported attached provider is in the returned list only through a
\* supporting attached provider that has it as a direct child; the call
\* fails only when a supporting provider's getActions throws.
C1_SkippedPerEntry ==
    AfterAgentCall =>
        /\ lastResult.kind = "throw" => FailingAttached # {}
        /\ lastResult.kind = "return" =>
              /\ lastResult.unsupported =
                    [i \in DOMAIN SelectSeq(actionProviders, Unsupported) |->
                        NameOf(SelectSeq(actionProviders, Unsupported)[i])]
              /\ lastResult.warning = lastResult.unsupported
              /\ \A i \in DOMAIN actionProviders :
                    Unsupported(actionProviders[i]) =>
                       \A k \in DOMAIN lastResult.actions :
                          lastResult.actions[k].provider = actionProviders[i] =>
                             \E j \in DOMAIN actionProviders :
                                /\ Supports(actionProviders[j])
                                /\ actionProviders[i] \in Children(actionProviders[j])

\* a returning call that skipped a provider and still returned actions
C1_Witness ==
    /\ AfterAgentCall
    /\ lastResult.kind = "return"
    /\ lastResult.unsupported # <<>>
    /\ lastResult.actions # <<>>

\* C2: the list returned by TonAgent.getActions is the concatenation, in the
\* order of actionProviders, of provider.getActions(walletProvider) over the
\* providers that support the bound network.
C2_Concatenation ==
    (AfterAgentCall /\ lastResult.kind = "return") =>
        LET supporting == SelectSeq(actionProviders, Supports)
        IN  lastResult.actions =
               Flatten([i \in DOMAIN supporting |->
                           ActionProvider_getActions(supporting[i], walletProvider).actions])

\* a returned list made of the actions of two different attached providers
C2_Witness ==
    /\ AfterAgentCall
    /\ lastResult.kind = "return"
    /\ Len(actionProviders) >= 2
    /\ actionProviders[1] # actionProviders[2]
    /\ \A i \in DOMAIN actionProviders :
          OwnedBy(lastResult.actions, actionProviders[i]) # <<>>

\* C3: on a testnet wallet, an agent whose only provider is the wallet action
\* provider returns exactly get_wallet_details, transfer_ton,
\* ensure_wallet_deployed, in that order.
C3_WalletActions ==
    (/\ AfterAgentCall
     /\ getNetwork(walletProvider) = "testnet"
     /\ actionProviders = <<walletActionProvider>>) =>
        /\ lastResult.kind = "return"
        /\ NamesOf(lastResult.actions) =
              <<"get_wallet_details", "transfer_ton", "ensure_wallet_deployed">>

C3_Witness ==
    /\ AfterAgentCall
    /\ getNetwork(walletProvider) = "testnet"
    /\ actionProviders = <<walletActionProvider>>
    /\ Len(lastResult.actions) = 3

\* C4: in ActionProvider.getActions, a provider (the receiver or a direct
\* child) without registered metadata contributes no action and raises
\* nothing: the call throws only if another provider throws, and otherwise
\* every other provider's registered actions are returned.
C4_NoMetadataIsNotAnError ==
    AfterProviderCall =>
        LET all == AllProviders(event.provider)
        IN  (\E i \in DOMAIN all : NoMetadata(all[i])) =>
               /\ \A i \in DOMAIN all :
                     NoMetadata(all[i]) => OwnedBy(lastResult.actions, all[i]) = <<>>
               /\ lastResult.kind = "throw" => \E i \in DOMAIN all : Throws(all[i])
               /\ lastResult.kind = "return" =>
                     \A i \in DOMAIN all :
                        ~NoMetadata(all[i]) =>
                           NamesOf(OwnedBy(lastResult.actions, all[i])) =
                              [k \in DOMAIN StoredActionMetadata(Providers[all[i]].type).entries |->
                                  StoredActionMetadata(Providers[all[i]].type).entries[k].value.name]

\* a call on a provider with a metadata-less child that returned the others
C4_Witness ==
    /\ AfterProviderCall
    /\ \E c \in Children(event.provider) : NoMetadata(c)
    /\ lastResult.kind = "return"
    /\ Len(lastResult.actions) >= 4

\* C7: when the lookup or the building of an action throws for a provider of
\* the call, ActionProvider.getActions throws an ActionProviderError whose
\* cause is the error thrown first, and returns no action.
C7_WrapsAndReturnsNothing ==
    AfterProviderCall =>
        LET all == AllProviders(event.provider)
            throwing == {i \in DOMAIN all : Throws(all[i])}
        IN  throwing # {} =>
               LET first == CHOOSE i \in throwing : \A j \in throwing : i <= j
               IN  /\ lastResult.kind = "throw"
                   /\ lastResult.actions = <<>>
                   /\ Head(lastResult.error).name = "ActionProviderError"
                   /\ Tail(lastResult.error) =
                         Err("TypeError",
                             IF all[first] = "undef"
                             THEN "Cannot read properties of undefined"
                             ELSE "Cannot read properties of null", NoCause)

\* a call that threw after a first provider had already pushed an action
C7_Witness ==
    /\ AfterProviderCall
    /\ lastResult.kind = "throw"
    /\ event.provider = "hub"

\* C8: the names in a list returned by TonAgent.getActions are pairwise
\* distinct.
C8_UniqueNames ==
    (AfterAgentCall /\ lastResult.kind = "return") =>
        \A i, j \in DOMAIN lastResult.actions :
           i # j => lastResult.actions[i].name # lastResult.actions[j].name

\* C9: ActionProvider.getActions returns only actions of the receiver and of
\* its direct children; a provider reached only through a child of a child
\* has no action in the result.
C9_OneLevel ==
    AfterProviderCall =>
        LET top == event.provider
            grandchildren == UNION {Children(c) : c \in Children(top)}
        IN  /\ \A k \in DOMAIN lastResult.actions :
                  lastResult.actions[k].provider \in {top} \cup Children(top)
            /\ \A g \in grandchildren \ ({top} \cup Children(top)) :
                  OwnedBy(lastResult.actions, g) = <<>>

\* a returning call on a provider that has a grandchild with registered actions
C9_Witness ==
    /\ AfterProviderCall
    /\ lastResult.kind = "return"
    /\ \E c \in Children(event.provider) :
          \E g \in Children(c) :
             /\ g \notin {event.provider} \cup Children(event.provider)
             /\ ~NoMetadata(g)
             /\ OwnedBy(lastResult.actions, c) # <<>>

AfterInvoke == event.op = "invoke"

WalletMethods == {"getWalletDetails", "transferTon", "ensureWalletDeployed"}

\* the metadata registered for a method on the class of a provider
Registered(p, method) ==
    LET entries == StoredActionMetadata(Providers[p].type).entries
    IN  entries[CHOOSE k \in DOMAIN entries : entries[k].key = method].value

\* C5: invoke(args) applies the method of the provider that declared the
\* action to [w, args] when the metadata asks for a wallet provider and to
\* [args] otherwise, w being the wallet provider given to the getActions call
\* that built the action.
C5_InvokeArguments ==
    AfterInvoke =>
        LET call == lastInvoke.call
            meta == Registered(call.this, call.method)
            w == event.walletProvider
        IN  /\ call.this = lastInvoke.action.provider
            /\ meta.name = lastInvoke.action.name
            /\ call.args = IF meta.walletProvider
                           THEN <<WalletArg(w), lastInvoke.schemaArgs>>
                           ELSE <<lastInvoke.schemaArgs>>

\* a method that takes no wallet provider, invoked on an action that was
\* built for a wallet other than the agent's
C5_Witness ==
    /\ AfterInvoke
    /\ ~Registered(lastInvoke.call.this, lastInvoke.call.method).walletProvider
    /\ event.walletProvider # walletProvider
    /\ Len(lastInvoke.call.args) = 1

\* the wallet the invoked action works on
InvokedWallet == lastInvoke.action.walletProvider

\* the invoked wallet action cannot complete
ExecutionFails ==
    LET method == lastInvoke.call.method
        fault == lastInvoke.fault
        a == lastInvoke.schemaArgs
        active == chain[InvokedWallet] = "active"
    IN  CASE method = "getWalletDetails" -> fault \in {"getBalance", "getState"}
          [] method = "transferTon" ->
                \/ a.to = "" \/ a.value = "" \/ ~IsAddress(a.to)
                \/ ~active
                \/ fault \in {"getState", "getBalance", "getSeqno", "sendTransfer"}
          [] method = "ensureWalletDeployed" ->
                \/ fault = "getState"
                \/ ~active /\ fault \in {"getSeqno", "deploy"}
          [] OTHER -> FALSE

\* C6: when executing a wallet action fails, invoke rejects with a
\* WalletActionError that has a message and whose cause is the underlying
\* error, one layer deep; it does not resolve to a report, and the invoke
\* closure adds no layer of its own.
C6_TypedFailure ==
    (AfterInvoke /\ lastInvoke.call.method \in WalletMethods /\ ExecutionFails) =>
        LET error == lastInvoke.outcome.error
            a == lastInvoke.schemaArgs
        IN  /\ lastInvoke.outcome.kind = "rejected"
            /\ Len(error) = 2
            /\ error[1].name = "WalletActionError"
            /\ error[1].message \in {"Failed to get wallet details",
                                      "Failed to transfer TON", "Failed to deploy wallet"}
            /\ error[2].name \in {"Error", "WalletActionError"}
            /\ error[2].name = "WalletActionError" <=>
                  /\ lastInvoke.call.method = "transferTon"
                  /\ \/ a.to = "" \/ a.value = ""
                     \/ lastInvoke.fault # "getState" /\ chain[InvokedWallet] # "active"

\* a transfer on a deployed wallet whose submission fails
C6_Witness ==
    /\ AfterInvoke
    /\ lastInvoke.call.method = "transferTon"
    /\ chain[InvokedWallet] = "active"
    /\ lastInvoke.fault = "sendTransfer"
    /\ lastInvoke.outcome.kind = "rejected"
    /\ lastInvoke.outcome.trace = <<"getState", "getBalance", "getSeqno", "sendTransfer">>

\* C10: a call of TonAgent.getActions is determined by the providers, their
\* supportsNetwork answers and the wallet's network at the call, whatever was
\* returned before: it fails exactly when a supporting provider fails, else it
\* returns the actions of the providers that support the network now and
\* skips the others; and it leaves the agent's wallet provider and provider
\* list as they were.
C10_NoStateBetweenCalls ==
    [][event'.op = "TonAgent.getActions" =>
          /\ walletProvider' = walletProvider
          /\ actionProviders' = actionProviders
          /\ supported' = supported
          /\ (lastResult'.kind = "throw") = (FailingAttached # {})
          /\ lastResult'.kind = "return" =>
                LET now == SelectSeq(actionProviders, Supports)
                    skipped == SelectSeq(actionProviders, Unsupported)
                IN  /\ lastResult'.actions =
                          Flatten([i \in DOMAIN now |->
                                      ActionProvider_getActions(now[i], walletProvider).actions])
                    /\ lastResult'.unsupported = [i \in DOMAIN skipped |-> NameOf(skipped[i])]
    ]_vars

\* a call made after dex stopped accepting the bound network: dex is skipped
C10_Witness ==
    /\ AfterAgentCall
    /\ lastResult.kind = "return"
    /\ \E i \in DOMAIN actionProviders : actionProviders[i] = "dex"
    /\ BoundNetwork \notin supported["dex"]
    /\ lastResult.unsupported # <<>>

\* ------------------------------------------------------------------ wallet operations
Completed(p, op) == procs[p].op = op /\ procs[p].pc = "done"

Count(seq, x) == Cardinality({i \in DOMAIN seq : seq[i] = x})

\* C11: a deploy() call that finds the wallet active returns the sentinel
\* "Wallet is already deployed" after the state query alone: it reads no
\* sequence number and submits no deployment; this holds for every such call,
\* so also for two calls made one after the other.
C11_DeployIdempotent ==
    \A p \in Procs :
        (Completed(p, "deploy") /\ procs[p].observed = <<"active">>) =>
            /\ procs[p].result.kind = "resolved"
            /\ procs[p].result.value = <<Text("Wallet is already deployed")>>
            /\ procs[p].rpcs = <<"getState">>
            /\ procs[p].seqno = -1
            /\ procs[p].sent = NoMessage

\* two deploy() calls, one after the other, on a wallet that was active from
\* the start: both returned the sentinel and nothing was submitted
C11_Witness ==
    /\ serial
    /\ account.seqno = 0
    /\ pending = {}
    /\ \A p \in Procs :
          /\ Completed(p, "deploy")
          /\ procs[p].observed = <<"active">>
          /\ procs[p].result.value = <<Text("Wallet is already deployed")>>

\* C12: nativeTransfer with a malformed destination fails with a
\* WalletProviderError, before the sequence number is read and before any
\* message is signed or submitted.
C12_MalformedDestination ==
    \A p \in Procs :
        (Completed(p, "nativeTransfer") /\ ~IsAddress(procs[p].to)) =>
            /\ procs[p].result.kind = "rejected"
            /\ procs[p].result.error[1].name = "WalletProviderError"
            /\ procs[p].rpcs = <<>>
            /\ procs[p].seqno = -1
            /\ procs[p].sent = NoMessage

\* the part of C12 the code keeps: the failure comes before any RPC
C12_FailsBeforeAnyRpc ==
    \A p \in Procs :
        (Completed(p, "nativeTransfer") /\ ~IsAddress(procs[p].to)) =>
            /\ procs[p].result.kind = "rejected"
            /\ procs[p].rpcs = <<>>
            /\ procs[p].seqno = -1
            /\ procs[p].sent = NoMessage

\* C13: every getBalance() call queries the chain; when that query fails the
\* call fails with a WalletProviderError whose cause is the RPC failure, and
\* when it succeeds the call returns what the query returned.
C13_BalanceFailure ==
    \A p \in Procs :
        Completed(p, "getBalance") =>
            /\ procs[p].rpcs = <<"getBalance">>
            /\ procs[p].result.kind = "rejected" =>
                  /\ procs[p].result.error[1].name = "WalletProviderError"
                  /\ Len(procs[p].result.error) > 1
            /\ procs[p].result.kind = "resolved" =>
                  procs[p].result.value[1].balance \in 0..MaxMessages

\* the part of C13 the code keeps: each call is a live query and a failed
\* query is never answered with a balance
C13_AlwaysLive ==
    \A p \in Procs :
        Completed(p, "getBalance") =>
            /\ procs[p].rpcs = <<"getBalance">>
            /\ procs[p].result.kind \in {"rejected", "resolved"}

\* the transfers two different callers have submitted with one sequence number
SameSeqnoTransfers ==
    {pair \in pending \X pending :
        /\ pair[1].kind = "transfer" /\ pair[2].kind = "transfer"
        /\ pair[1].by # pair[2].by
        /\ pair[1].seqno = pair[2].seqno}

\* what an invocation does at its sequence number read and at its submission
SeqnoSteps(p) ==
    /\ (procs[p].pc \in {"nativeTransfer.getSeqno", "deploy.getSeqno"}
        /\ procs'[p].pc \in {"nativeTransfer.sendTransfer", "deploy.deploy"}) =>
            procs'[p].seqno = account.seqno
    /\ (procs[p].pc \in {"nativeTransfer.sendTransfer", "deploy.deploy"}
        /\ procs'[p].result.kind = "resolved") =>
            /\ procs'[p].sent.seqno = procs[p].seqno
            /\ procs'[p].sent \in pending'

\* C16: nothing in the action/provider layer orders invocations on one
\* wallet: an invocation that reads the sequence number gets the number the
\* chain holds at that moment, whatever other invocations in flight already
\* hold, and submits its message with the number it read; two invocations
\* are in flight together only when the callers did not serialize them.
C16_NoSeqnoProtection ==
    /\ [][\A p \in Procs : SeqnoSteps(p)]_vars
    /\ [](serial => Cardinality({p \in Procs : InFlight(procs[p])}) <= 1)

\* two transfers were in flight together, read the same sequence number and
\* both submitted a message with it
C16_Witness ==
    /\ ~serial
    /\ SameSeqnoTransfers # {}
    /\ \A p \in Procs : procs[p].result.kind = "resolved" /\ procs[p].sent \in pending

\* the cases in which transfer_ton must not transfer
MustNotTransfer(proc) ==
    proc.to = "" \/ proc.value = "" \/ "uninit" \in Range(proc.observed)

\* C18: a transfer_ton invocation with an empty destination or amount, or one
\* that observed the wallet as not deployed, fails with a WalletActionError
\* without calling nativeTransfer and without submitting anything; and no
\* invocation calls nativeTransfer or submits a transfer more than once.
C18_GuardedTransfer ==
    \A p \in Procs :
        procs[p].op = "transfer_ton" =>
            /\ MustNotTransfer(procs[p]) =>
                  /\ procs[p].pc = "done"
                  /\ procs[p].result.kind = "rejected"
                  /\ procs[p].result.error[1].name = "WalletActionError"
                  /\ Count(procs[p].calls, "nativeTransfer") = 0
                  /\ Count(procs[p].rpcs, "sendTransfer") = 0
                  /\ procs[p].sent = NoMessage
            /\ Count(procs[p].calls, "nativeTransfer") <= 1
            /\ Count(procs[p].rpcs, "sendTransfer") <= 1

\* one invocation refused an undeployed wallet, another refused an empty
\* destination, neither reached nativeTransfer
C18_Witness ==
    \E p, q \in Procs :
        /\ Completed(p, "transfer_ton") /\ procs[p].observed = <<"uninit">>
        /\ procs[p].result.kind = "rejected"
        /\ Completed(q, "transfer_ton") /\ procs[q].to = ""
        /\ procs[q].result.kind = "rejected"

\* C19: an ensure_wallet_deployed invocation that returns the "Wallet
\* Deployment Initiated" report has submitted a deployment in that invocation
\* and reports the hash of that message.
C19_InitiatedMeansSubmitted ==
    \A p \in Procs :
        (/\ Completed(p, "ensure_wallet_deployed")
         /\ procs[p].result.kind = "resolved"
         /\ procs[p].result.value[1] = Text("## Wallet Deployment Initiated")) =>
            /\ procs[p].sent.kind = "deploy"
            /\ procs[p].result.value[2] = TxHash(procs[p].sent)

\* ------------------------------------------------------------------ configuration
RequiredFields == {"TONCENTER_API_URL", "TONCENTER_API_KEY", "MNEMONIC_PHRASE"}

MissingRequired(config) == {k \in RequiredFields : Missing(config, k)}

\* the fields an error message names
NamedFields(message) ==
    {k \in ConfigFields :
        \/ /\ message = "TONCENTER_API_URL and TONCENTER_API_KEY are required"
           /\ k \in {"TONCENTER_API_URL", "TONCENTER_API_KEY"}
        \/ /\ message = "MNEMONIC_PHRASE is required"
           /\ k = "MNEMONIC_PHRASE"}

Configured(s) == wallets[s].kind # "none" /\ wallets[s].via = "configureWithWallet"

\* C14: configureWithWallet on a config that lacks the endpoint, the key or
\* the phrase rejects with a WalletProviderError whose message names a field
\* that is missing (the one that is missing when only one is), having created
\* no RPC client, derived no key pair and opened no contract; no provider is
\* returned.
C14_FailsFast ==
    \A s \in Slots :
        (Configured(s) /\ MissingRequired(wallets[s].config) # {}) =>
            /\ wallets[s].kind = "rejected"
            /\ wallets[s].error[1].name = "WalletProviderError"
            /\ NamedFields(wallets[s].error[1].message)
                   \cap MissingRequired(wallets[s].config) # {}
            /\ Cardinality(MissingRequired(wallets[s].config)) = 1 =>
                   MissingRequired(wallets[s].config)
                       \subseteq NamedFields(wallets[s].error[1].message)
            /\ wallets[s].steps = <<>>
            /\ wallets[s].provider = NoProvider

\* one call made without the key alone, one with an empty phrase alone
C14_Witness ==
    /\ Configured("first") /\ Configured("second")
    /\ MissingRequired(wallets["first"].config) = {"TONCENTER_API_KEY"}
    /\ MissingRequired(wallets["second"].config) = {"MNEMONIC_PHRASE"}
    /\ "MNEMONIC_PHRASE" \in DOMAIN wallets["second"].config
    /\ wallets["first"].kind = "rejected" /\ wallets["second"].kind = "rejected"

\* the two configs hold the same phrase and the same workchain
SameSeed(c, d) ==
    /\ "MNEMONIC_PHRASE" \in DOMAIN c /\ "MNEMONIC_PHRASE" \in DOMAIN d
    /\ c.MNEMONIC_PHRASE = d.MNEMONIC_PHRASE
    /\ ("WORKCHAIN" \in DOMAIN c) = ("WORKCHAIN" \in DOMAIN d)
    /\ "WORKCHAIN" \in DOMAIN c => c.WORKCHAIN = d.WORKCHAIN

Differs(c, d, k) == (k \in DOMAIN c) # (k \in DOMAIN d) \/ (k \in DOMAIN c /\ c[k] # d[k])

\* C15: two providers configured from the same phrase and workchain have the
\* same address, whatever their endpoint, key and network are; and no
\* operation of a provider changes its address.
C15_AddressDeterminism ==
    /\ [](\A s, t \in Slots :
            (/\ wallets[s].kind = "provider" /\ wallets[t].kind = "provider"
             /\ SameSeed(wallets[s].config, wallets[t].config)) =>
                getAddress(wallets[s]) = getAddress(wallets[t]))
    /\ [][\A s \in Slots :
            wallets[s].kind = "provider" =>
                /\ wallets'[s].kind = "provider"
                /\ getAddress(wallets'[s]) = getAddress(wallets[s])]_vars

\* two providers from one phrase and workchain with different endpoints and
\* networks, both used since
C15_Witness ==
    /\ wallets["first"].kind = "provider" /\ wallets["second"].kind = "provider"
    /\ SameSeed(wallets["first"].config, wallets["second"].config)
    /\ Differs(wallets["first"].config, wallets["second"].config, "TONCENTER_API_URL")
    /\ Differs(wallets["first"].config, wallets["second"].config, "NETWORK")
    /\ wallets["first"].provider.lastOp = "nativeTransfer"
    /\ wallets["second"].provider.lastOp = "deploy"
    /\ getAddress(wallets["first"]) = getAddress(wallets["second"])

\* ------------------------------------------------------------------ autonomous loop
\* the number of failures at the end of a history of iterations
RECURSIVE TrailingFailures(_)
TrailingFailures(outcomes) ==
    IF outcomes = <<>> \/ outcomes[Len(outcomes)] # "fail"
    THEN 0
    ELSE 1 + TrailingFailures(SubSeq(outcomes, 1, Len(outcomes) - 1))

\* C17: the counter is the number of iterations that failed in a row, between
\* 0 and 3; the loop has aborted exactly when the last 3 iterations failed; a
\* success puts the counter at 0 and is followed by a sleep of interval
\* seconds; the 1st and 2nd failure in a row are followed by a wait of
\* min(30, interval x count) seconds, after which the loop tries again.
C17_BoundedRetries ==
    /\ [](/\ loop.consecutiveErrors \in 0..3
          /\ loop.consecutiveErrors = TrailingFailures(loop.outcomes)
          /\ (loop.pc = "aborted") = (TrailingFailures(loop.outcomes) >= 3)
          /\ loop.pc = "sleep" =>
                /\ loop.consecutiveErrors = 0
                /\ loop.slept = loop.interval
          /\ loop.pc = "backoff" =>
                /\ loop.consecutiveErrors \in {1, 2}
                /\ loop.slept = Min(30, loop.interval * loop.consecutiveErrors))
    /\ [][/\ loop.pc = "backoff" => loop'.pc = "try"
          /\ loop.pc = "aborted" => loop' = loop]_vars

\* two failures, a success, two more failures: the loop is backing off for
\* the capped 30 seconds and has not aborted
C17_Witness ==
    /\ loop.outcomes = <<"fail", "fail", "ok", "fail", "fail">>
    /\ loop.pc = "backoff"
    /\ loop.interval = 20
    /\ loop.slept = 30

\* ------------------------------------------------------------------ gating
\* owner and name of the actions provider q registers, in registration order
RegisteredBy(q) ==
    LET stored == StoredActionMetadata(Providers[q].type)
    IN  IF stored.kind = "undefined" THEN <<>>
        ELSE [e \in DOMAIN stored.entries |->
                [provider |-> q, name |-> stored.entries[e].value.name]]

\* what one attached provider adds to the list: nothing when it does not
\* support the network, else its own actions and those of its children
ContributionOf(p) ==
    IF Supports(p)
    THEN Flatten([k \in DOMAIN (<<p>> \o Providers[p].actionProviders) |->
                    RegisteredBy((<<p>> \o Providers[p].actionProviders)[k])])
    ELSE <<>>

\* child c reaches the agent through attached provider p and in no other way
OnlyThrough(c, p) ==
    /\ c \notin Range(actionProviders)
    /\ \A j \in DOMAIN actionProviders :
          c \in Children(actionProviders[j]) => actionProviders[j] = p

\* C20: the list TonAgent.getActions returns is made of the contributions of
\* the attached providers, each contribution being decided by the attached
\* provider's supportsNetwork alone: the actions of a child are in it exactly
\* when the parent supports the wallet's network, whatever the child's own
\* supportsNetwork says.
C20_ParentGates ==
    (AfterAgentCall /\ lastResult.kind = "return") =>
        /\ [k \in DOMAIN lastResult.actions |->
              [provider |-> lastResult.actions[k].provider,
               name |-> lastResult.actions[k].name]]
             = Flatten([i \in DOMAIN actionProviders |->
                          ContributionOf(actionProviders[i])])
        /\ \A i \in DOMAIN actionProviders :
              \A c \in Children(actionProviders[i]) :
                 (/\ ~Throws(c)
                  /\ RegisteredBy(c) # <<>>
                  /\ OnlyThrough(c, actionProviders[i])) =>
                     ((OwnedBy(lastResult.actions, c) # <<>>) = Supports(actionProviders[i]))

\* dex supports the bound network, its child leaf does not and is not
\* attached itself: the action of leaf is in the list
C20_Witness ==
    /\ AfterAgentCall
    /\ lastResult.kind = "return"
    /\ "dex" \in Range(actionProviders)
    /\ Supports("dex")
    /\ ~Supports("leaf")
    /\ OnlyThrough("leaf", "dex")
    /\ OwnedBy(lastResult.actions, "leaf") # <<>>

====
